---- MODULE Spec2Model ----
(***************************************************************************)
(* Model of teditor (src/src/main.rs): raw-mode terminal session, the      *)
(* read_key escape-sequence decoder, the cursor/scroll model, the frame    *)
(* builder and the main loop  refresh -> process_keypress -> sb.flush.     *)
(*                                                                         *)
(* u16 fields are modelled with a scaled-down width: values live in        *)
(* 0..MaxU16 and every u16 operation reports whether it left that range.   *)
(* A build with overflow checks panics there, a build without them wraps.  *)
(***************************************************************************)
EXTENDS Integers, Sequences, FiniteSets, TLC

VARIABLES
    pc,               \* position of the process in main / die
    termios,          \* attributes of fd 0: "orig" or "raw"
    overflow_checks,  \* TRUE: arithmetic overflow panics, FALSE: it wraps
    editor,           \* the EditorConfig struct
    sb,               \* ScreenBuffer.to_print: frames appended, not yet printed
    stdout_buf,       \* text held by the process's stdout buffer
    screen,           \* what the terminal received last
    stdin,            \* bytes pending on fd 0
    last_read,        \* bytes consumed by the last read_key call
    last_key,         \* value returned by the last read_key call
    effects,          \* terminal/process calls made by the last step, in order
    die_msg,          \* message of the die call in progress
    die_depth,        \* nesting depth of die -> clear_and_reset_cursor -> die
    panic_msg,        \* message the process panicked with
    exit_code         \* status passed to std::process::exit, -1 if none

vars == <<pc, termios, overflow_checks, editor, sb, stdout_buf, screen, stdin,
          last_read, last_key, effects, die_msg, die_depth, panic_msg, exit_code>>

----------------------------------------------------------------------------
(* Bounds *)

MaxU16 == 7          \* largest value of the scaled-down u16
MaxDim == 2          \* largest screen_rows / screen_cols reported by the terminal
MaxLines == 1        \* most lines in a loaded file
MaxLineLen == 2      \* longest line in a loaded file
MaxDieDepth == 2     \* most nested failures of the flush inside die
MaxKeys == 2         \* most keypresses queued on stdin for the decoder runs
MaxReply == 4        \* most bytes of a cursor-position reply after its prefix

----------------------------------------------------------------------------
(* u16 arithmetic *)

InU16(n) == n >= 0 /\ n <= MaxU16

wrapping(n) == n % (MaxU16 + 1)

saturating_sub(a, b) == IF a >= b THEN a - b ELSE 0

----------------------------------------------------------------------------
(* Bytes of the keyboard protocol *)

NUL == 0
ESC == 27
LBRACKET == 91
LETTER_O == 79
TILDE == 126
DIGIT_0 == 48
DIGIT_9 == 57
SEMICOLON == 59
LETTER_R == 82

\* enum EditorKey discriminants
Left == 1000
Right == 1001
Up == 1002
Down == 1003
PageUp == 1004
PageDown == 1005
Home == 1006
End == 1007
Delete == 1008

ctrl_key(key) == key % 32

CTRL_Q == ctrl_key(113)

is_cntrl(key) == key < 32

\* try_from accepting every EditorKey discriminant
try_from_high_total(key) ==
    CASE key = Left -> "Left"
      [] key = Right -> "Right"
      [] key = Up -> "Up"
      [] key = Down -> "Down"
      [] key = PageUp -> "PageUp"
      [] key = PageDown -> "PageDown"
      [] key = Home -> "Home"
      [] key = End -> "End"
      [] key = Delete -> "Delete"
      [] OTHER -> "Err"

\* EditorKey::try_from: the variant a raw key value maps to, "Err" if none
try_from_high(key) ==
    CASE key = Left -> "Left"
      [] key = Right -> "Right"
      [] key = Up -> "Up"
      [] key = Down -> "Down"
      [] OTHER -> "Err"

try_from(key) ==
    IF key < 256
    THEN CASE key \in {104, 68} -> "Left"
           [] key \in {108, 67} -> "Right"
           [] key \in {107, 65} -> "Up"
           [] key \in {106, 66} -> "Down"
           [] OTHER -> "Err"
    ELSE try_from_high(key)

----------------------------------------------------------------------------
(* Input decoder *)

\* read_input on a stream: the i-th byte, or 0 when the read times out
read_input(s, i) == IF i <= Len(s) THEN s[i] ELSE NUL

Min(a, b) == IF a <= b THEN a ELSE b

function_key(c2, c) ==
    CASE c2 = 49 -> Home
      [] c2 = 51 -> Delete
      [] c2 = 52 -> End
      [] c2 = 53 -> PageUp
      [] c2 = 54 -> PageDown
      [] c2 = 55 -> Home
      [] c2 = 56 -> End
      [] OTHER -> c

\* the arrow letters with C and D exchanged
arrow_key_swapped(c2, c) ==
    CASE c2 = 65 -> Up
      [] c2 = 66 -> Down
      [] c2 = 68 -> Right
      [] c2 = 67 -> Left
      [] c2 = 72 -> Home
      [] c2 = 70 -> End
      [] OTHER -> c

arrow_key(c2, c) ==
    CASE c2 = 65 -> Up
      [] c2 = 66 -> Down
      [] c2 = 67 -> Right
      [] c2 = 68 -> Left
      [] c2 = 72 -> Home
      [] c2 = 70 -> End
      [] OTHER -> c

o_key(c2, c) ==
    CASE c2 = 72 -> Home
      [] c2 = 70 -> End
      [] OTHER -> c

\* read_key on the pending bytes s: the key returned and the number of
\* read_input calls made (each consumes one byte while bytes are pending)
read_key(s) ==
    LET c == read_input(s, 1) IN
    IF c = ESC
    THEN LET c1 == read_input(s, 2)
             c2 == read_input(s, 3) IN
         IF c1 = LBRACKET
         THEN IF c2 > DIGIT_0 /\ c2 <= DIGIT_9
              THEN LET c3 == read_input(s, 4) IN
                   [key |-> IF c3 = TILDE THEN function_key(c2, c) ELSE c,
                    reads |-> 4]
              ELSE [key |-> arrow_key(c2, c), reads |-> 3]
         ELSE IF c1 = LETTER_O
              THEN [key |-> o_key(c2, c), reads |-> 3]
              ELSE [key |-> c, reads |-> 3]
    ELSE [key |-> c, reads |-> 1]

consumed(s) == SubSeq(s, 1, Min(read_key(s).reads, Len(s)))

remaining(s) == SubSeq(s, Min(read_key(s).reads, Len(s)) + 1, Len(s))

----------------------------------------------------------------------------
(* Cursor and viewport *)

\* each arm of move_cursor: the new cursor and whether a u16 operation
\* overflowed
move_left(e) ==
    [cursor_x |-> IF e.cursor_x > 0 THEN e.cursor_x - 1 ELSE e.cursor_x,
     cursor_y |-> e.cursor_y, ovf |-> FALSE]

move_right(e) ==
    [cursor_x |-> wrapping(e.cursor_x + 1), cursor_y |-> e.cursor_y,
     ovf |-> ~InU16(e.cursor_x + 1)]

\* Up without the cursor_y > 0 test
move_up_unguarded(e) ==
    [cursor_x |-> e.cursor_x, cursor_y |-> wrapping(e.cursor_y - 1), ovf |-> FALSE]

move_up(e) ==
    [cursor_x |-> e.cursor_x,
     cursor_y |-> IF e.cursor_y > 0 THEN e.cursor_y - 1 ELSE e.cursor_y,
     ovf |-> FALSE]

\* Down stopping on the last buffer row
move_down_clamped(e) ==
    [cursor_x |-> e.cursor_x,
     cursor_y |-> IF e.cursor_y + 1 < e.num_rows THEN e.cursor_y + 1 ELSE e.cursor_y,
     ovf |-> FALSE]

move_down(e) ==
    [cursor_x |-> e.cursor_x,
     cursor_y |-> IF e.cursor_y < e.num_rows THEN e.cursor_y + 1 ELSE e.cursor_y,
     ovf |-> FALSE]

move_page_up(e) == [cursor_x |-> e.cursor_x, cursor_y |-> 0, ovf |-> FALSE]

move_page_down(e) ==
    [cursor_x |-> e.cursor_x, cursor_y |-> wrapping(e.screen_rows - 1),
     ovf |-> ~InU16(e.screen_rows - 1)]

move_home(e) == [cursor_x |-> 0, cursor_y |-> e.cursor_y, ovf |-> FALSE]

move_end(e) ==
    [cursor_x |-> wrapping(e.screen_cols - 1), cursor_y |-> e.cursor_y,
     ovf |-> ~InU16(e.screen_cols - 1)]

move_cursor(e, key) ==
    CASE key = "Left" -> move_left(e)
      [] key = "Right" -> move_right(e)
      [] key = "Up" -> move_up(e)
      [] key = "Down" -> move_down(e)
      [] key = "PageUp" -> move_page_up(e)
      [] key = "PageDown" -> move_page_down(e)
      [] key = "Home" -> move_home(e)
      [] key = "End" -> move_end(e)
      [] OTHER -> [cursor_x |-> e.cursor_x, cursor_y |-> e.cursor_y, ovf |-> FALSE]

\* scroll_screen comparing with > where the code compares with >=
scroll_axis_late(cursor, offset, size) ==
    LET o1 == IF cursor < offset THEN cursor ELSE offset
        sum == o1 + size
        past == cursor > wrapping(sum)
        diff == cursor - size
    IN  [offset |-> IF past THEN wrapping(wrapping(diff) + 1) ELSE o1,
         ovf |-> \/ ~InU16(sum)
                 \/ past /\ (~InU16(diff) \/ ~InU16(wrapping(diff) + 1))]

\* scroll_screen scrolling up one line at a time instead of to the cursor
scroll_axis_stepwise(cursor, offset, size) ==
    LET o1 == IF cursor < offset THEN offset - 1 ELSE offset
        sum == o1 + size
        past == cursor >= wrapping(sum)
        diff == cursor - size
    IN  [offset |-> IF past THEN wrapping(wrapping(diff) + 1) ELSE o1,
         ovf |-> \/ ~InU16(sum)
                 \/ past /\ (~InU16(diff) \/ ~InU16(wrapping(diff) + 1))]

\* one axis of scroll_screen: the two ifs on (cursor, offset, screen size)
scroll_axis(cursor, offset, size) ==
    LET o1 == IF cursor < offset THEN cursor ELSE offset
        sum == o1 + size
        past == cursor >= wrapping(sum)
        diff == cursor - size
    IN  [offset |-> IF past THEN wrapping(wrapping(diff) + 1) ELSE o1,
         ovf |-> \/ ~InU16(sum)
                 \/ past /\ (~InU16(diff) \/ ~InU16(wrapping(diff) + 1))]

scroll_screen(e) ==
    LET r == scroll_axis(e.cursor_y, e.row_offset, e.screen_rows)
        c == scroll_axis(e.cursor_x, e.col_offset, e.screen_cols)
    IN  [row_offset |-> r.offset, col_offset |-> c.offset,
         ovf |-> r.ovf \/ c.ovf]

----------------------------------------------------------------------------
(* Renderer *)

WelcomeLen == 24    \* length of "Teditor -- version 0.0.1"

welcome_row(screen_cols) ==
    IF WelcomeLen > screen_cols
    THEN [kind |-> "welcome", len |-> screen_cols]
    ELSE LET padding == (screen_cols - WelcomeLen) \div 2 IN
         [kind |-> "welcome", len |-> padding + WelcomeLen]

RECURSIVE byte_len(_)
\* str::len of a string given as the byte width of each of its characters
byte_len(chars) ==
    IF chars = <<>> THEN 0 ELSE chars[1] + byte_len(Tail(chars))

\* str::is_char_boundary
is_char_boundary(chars, index) ==
    \E n \in 0..Len(chars) : byte_len(SubSeq(chars, 1, n)) = index

\* draw_row with the banner on the middle row of the screen
draw_row_banner_mid(e, y) ==
    LET file_row == wrapping(y + e.row_offset) IN
    IF file_row >= e.num_rows
    THEN IF e.num_rows = 0 /\ y = e.screen_rows \div 2
         THEN welcome_row(e.screen_cols)
                  @@ [file_row |-> -1, oob |-> FALSE, bad_slice |-> FALSE]
         ELSE [kind |-> "tilde", len |-> 1, file_row |-> -1, oob |-> FALSE,
               bad_slice |-> FALSE]
    ELSE IF file_row + 1 > Len(e.rows)
         THEN [kind |-> "text", len |-> 0, file_row |-> file_row, oob |-> TRUE,
               bad_slice |-> FALSE]
         ELSE LET row == e.rows[file_row + 1]
                  len == saturating_sub(row.size, e.col_offset) IN
              IF len > 0
              THEN [kind |-> "text",
                    len |-> saturating_sub(byte_len(row.chars), e.col_offset),
                    file_row |-> file_row, oob |-> FALSE,
                    bad_slice |-> ~is_char_boundary(row.chars, e.col_offset)]
              ELSE [kind |-> "text", len |-> 0, file_row |-> file_row,
                    oob |-> FALSE, bad_slice |-> FALSE]

\* the text editor_draw_rows emits for screen row y (0-based), before the
\* clear-to-end-of-line sequence: its kind and its length in bytes;
\* oob: rows[file_row] does not exist, bad_slice: chars[col_offset..] is not
\* a valid slice of the line
draw_row(e, y) ==
    LET file_row == wrapping(y + e.row_offset) IN
    IF file_row >= e.num_rows
    THEN IF e.num_rows = 0 /\ y = e.screen_rows \div 3
         THEN welcome_row(e.screen_cols)
                  @@ [file_row |-> -1, oob |-> FALSE, bad_slice |-> FALSE]
         ELSE [kind |-> "tilde", len |-> 1, file_row |-> -1, oob |-> FALSE,
               bad_slice |-> FALSE]
    ELSE IF file_row + 1 > Len(e.rows)
         THEN [kind |-> "text", len |-> 0, file_row |-> file_row, oob |-> TRUE,
               bad_slice |-> FALSE]
         ELSE LET row == e.rows[file_row + 1]
                  len == saturating_sub(row.size, e.col_offset) IN
              IF len > 0
              THEN [kind |-> "text",
                    len |-> saturating_sub(byte_len(row.chars), e.col_offset),
                    file_row |-> file_row, oob |-> FALSE,
                    bad_slice |-> ~is_char_boundary(row.chars, e.col_offset)]
              ELSE [kind |-> "text", len |-> 0, file_row |-> file_row,
                    oob |-> FALSE, bad_slice |-> FALSE]

\* editor_draw_rows with the separator appended after every row
editor_draw_rows_sep_all(e) ==
    [y \in 1..e.screen_rows |->
        draw_row(e, y - 1) @@ [clear |-> TRUE, sep |-> TRUE]]

\* editor_draw_rows: one entry per screen row; clear: followed by ESC[K,
\* sep: followed by "\r\n"
editor_draw_rows(e) ==
    [y \in 1..e.screen_rows |->
        draw_row(e, y - 1) @@ [clear |-> TRUE, sep |-> (y - 1 < e.screen_rows - 1)]]

draw_rows_ovf(e) == \E y \in 0..(e.screen_rows - 1) : ~InU16(y + e.row_offset)

draw_rows_oob(e) == \E y \in 1..e.screen_rows : editor_draw_rows(e)[y].oob

draw_rows_bad_slice(e) == \E y \in 1..e.screen_rows : editor_draw_rows(e)[y].bad_slice

\* the frame editor_refresh_screen appends to the screen buffer, for an
\* editor whose offsets scroll_screen has already set
frame(e) ==
    [hide |-> TRUE,
     rows |-> editor_draw_rows(e),
     cursor |-> <<wrapping(wrapping(e.cursor_y - e.row_offset) + 1),
                  wrapping(wrapping(e.cursor_x - e.col_offset) + 1)>>,
     show |-> TRUE]

frame_ovf(e) ==
    \/ draw_rows_ovf(e)
    \/ ~InU16(e.cursor_y - e.row_offset)
    \/ ~InU16(wrapping(e.cursor_y - e.row_offset) + 1)
    \/ ~InU16(e.cursor_x - e.col_offset)
    \/ ~InU16(wrapping(e.cursor_x - e.col_offset) + 1)

----------------------------------------------------------------------------
(* Cursor-position reply of the fallback dimension query *)

BufLen == 16

\* the parser's row and col are u16 and hold numbers built from raw bytes,
\* so they keep the full width
U16_MAX == 65535

fits_u16(n) == 0 <= n /\ n <= U16_MAX

wrapping_u16(n) == n % (U16_MAX + 1)

\* the 16-byte buffer after reading reply into a zeroed array
reply_buf(reply) == [i \in 1..BufLen |-> IF i <= Len(reply) THEN reply[i] ELSE NUL]

RECURSIVE parse_row(_, _, _, _)
\* first while loop of get_cursor_position; i is the 0-based index
parse_row(buf, i, row, ovf) ==
    IF i >= BufLen
    THEN [val |-> row, i |-> i, ovf |-> ovf]
    ELSE IF buf[i + 1] = SEMICOLON
         THEN [val |-> row, i |-> i + 1, ovf |-> ovf]
         ELSE LET d == buf[i + 1] - DIGIT_0
                  m == row * 10
                  s == wrapping_u16(m) + wrapping_u16(d)
              IN  parse_row(buf, i + 1, wrapping_u16(s),
                            ovf \/ ~fits_u16(d) \/ ~fits_u16(m) \/ ~fits_u16(s))

RECURSIVE parse_col(_, _, _, _)
\* second while loop of get_cursor_position
parse_col(buf, i, col, ovf) ==
    IF i >= BufLen
    THEN [val |-> col, i |-> i, ovf |-> ovf]
    ELSE IF buf[i + 1] = LETTER_R
         THEN [val |-> col, i |-> i, ovf |-> ovf]
         ELSE LET d == buf[i + 1] - DIGIT_0
                  m == col * 10
                  s == wrapping_u16(m) + wrapping_u16(d)
              IN  parse_col(buf, i + 1, wrapping_u16(s),
                            ovf \/ ~fits_u16(d) \/ ~fits_u16(m) \/ ~fits_u16(s))

\* get_cursor_position on the bytes the terminal replied with
get_cursor_position(reply) ==
    LET buf == reply_buf(reply) IN
    IF buf[1] # ESC \/ buf[2] # LBRACKET
    THEN [die |-> TRUE, col |-> 0, row |-> 0, ovf |-> FALSE]
    ELSE LET r == parse_row(buf, 2, 0, FALSE)
             c == parse_col(buf, r.i, 0, r.ovf)
         IN  [die |-> FALSE, col |-> c.val, row |-> r.val, ovf |-> c.ovf]

----------------------------------------------------------------------------
(* Inputs *)

\* the complete escape sequences of the keyboard protocol
KeySequences ==
    { <<ESC, LBRACKET, 65>>, <<ESC, LBRACKET, 66>>, <<ESC, LBRACKET, 67>>,
      <<ESC, LBRACKET, 68>>, <<ESC, LBRACKET, 72>>, <<ESC, LBRACKET, 70>>,
      <<ESC, LETTER_O, 72>>, <<ESC, LETTER_O, 70>>,
      <<ESC, LBRACKET, 49, TILDE>>, <<ESC, LBRACKET, 51, TILDE>>,
      <<ESC, LBRACKET, 52, TILDE>>, <<ESC, LBRACKET, 53, TILDE>>,
      <<ESC, LBRACKET, 54, TILDE>>, <<ESC, LBRACKET, 55, TILDE>>,
      <<ESC, LBRACKET, 56, TILDE>> }

\* other things a user can type: Ctrl-Q, letters, a lone ESC, escape
\* sequences outside the protocol, and nothing at all (the read times out)
OtherInputs ==
    { <<>>, <<CTRL_Q>>, <<104>>, <<106>>, <<107>>, <<108>>, <<120>>, <<65>>,
      <<ESC>>, <<ESC, 120, CTRL_Q>>, <<ESC, LBRACKET, 50, TILDE>>,
      <<ESC, LBRACKET, 53, 120>>, <<ESC, LETTER_O, 65>>, <<ESC, LBRACKET, 90>> }

InputStreams == KeySequences \cup OtherInputs

RECURSIVE KeyStreams(_)
\* what is pending on stdin after at most n keypresses were typed ahead
KeyStreams(n) ==
    IF n = 0 THEN { <<>> }
    ELSE KeyStreams(n - 1) \cup { s \o u : s \in KeyStreams(n - 1), u \in InputStreams }

\* a line of text, as the byte width of each of its characters (1: ASCII,
\* 2: a two-byte UTF-8 character), at most MaxLineLen bytes long
Lines ==
    { l \in UNION { [1..n -> {1, 2}] : n \in 0..MaxLineLen } : byte_len(l) <= MaxLineLen }

\* a file of empty lines, one line more than the u16 line counter can count
LongFile == [i \in 1..(MaxU16 + 1) |-> <<>>]

\* the lines of a loaded file: every short file, and the long one
Files == UNION { [1..n -> Lines] : n \in 0..MaxLines } \cup {LongFile}

\* replies to the cursor-position query ESC[6n: the well-formed ones for
\* small screens, one without the ESC[ prefix, and one with the non-digits
\* '/' and ':' in its column (it parses to column 0 past an underflow)
CursorReplies ==
    { <<ESC, LBRACKET, DIGIT_0 + r, SEMICOLON, DIGIT_0 + c, LETTER_R>> :
          r \in 1..MaxDim, c \in 1..MaxDim }
    \cup { <<DIGIT_0 + 1, SEMICOLON, DIGIT_0 + 1, LETTER_R>>,
           <<ESC, LBRACKET, DIGIT_0 + 1, SEMICOLON, DIGIT_0 - 1, DIGIT_9 + 1,
             LETTER_R>> }

\* bytes that follow the prefix in the replies the parser is run on: a
\* digit, the separator, the terminator and the non-digit 'O'
ReplyBytes == {DIGIT_0 + 1, SEMICOLON, LETTER_R, LETTER_O}

\* the first bytes of a reply: the ESC[ prefix, whole or in part
ReplyPrefixes == {<<ESC, LBRACKET>>, <<ESC>>, <<LBRACKET>>, <<>>}

RECURSIVE ByteSeqs(_)
\* sequences of reply bytes of length n
ByteSeqs(n) ==
    IF n = 0 THEN {<<>>}
    ELSE {Append(s, b) : s \in ByteSeqs(n - 1), b \in ReplyBytes}

\* every prefix followed by at most MaxReply bytes
Replies == {p \o b : p \in ReplyPrefixes, b \in UNION {ByteSeqs(n) : n \in 0..MaxReply}}

----------------------------------------------------------------------------
(* State *)

\* init_editor's struct literal
init_editor(screen_cols, screen_rows) ==
    [screen_rows |-> screen_rows, screen_cols |-> screen_cols,
     cursor_x |-> 0, cursor_y |-> 0, num_rows |-> 0, rows |-> <<>>,
     row_offset |-> 0, col_offset |-> 0]

\* editor_open's loop over the lines of the file
editor_open(e, lines) ==
    [editor |-> [e EXCEPT !.rows = e.rows \o
                              [i \in 1..Len(lines) |->
                                  [size |-> wrapping(byte_len(lines[i])),
                                   chars |-> lines[i]]],
                          !.num_rows = wrapping(e.num_rows + Len(lines))],
     ovf |-> ~InU16(e.num_rows + Len(lines))]

\* what the terminal shows once the buffered text buf has been written
written(buf, shown) ==
    IF buf = <<>> THEN shown
    ELSE IF buf[Len(buf)] = "clear_home" THEN "cleared" ELSE "frame"

Init ==
    /\ pc = "setup"
    /\ termios = "orig"
    /\ overflow_checks \in BOOLEAN
    /\ editor = init_editor(0, 0)
    /\ sb = <<>>
    /\ stdout_buf = <<>>
    /\ screen = "shell"
    /\ stdin = <<>>
    /\ last_read = <<>>
    /\ last_key = 0
    /\ effects = <<>>
    /\ die_msg = ""
    /\ die_depth = 0
    /\ panic_msg = ""
    /\ exit_code = -1

\* a call of die(msg)
Die(msg) ==
    /\ pc' = "die"
    /\ die_msg' = msg
    /\ die_depth' = 0
    /\ UNCHANGED <<panic_msg, exit_code>>

\* a panic that does not come from die
Panic(msg) ==
    /\ pc' = "panicked"
    /\ panic_msg' = msg
    /\ UNCHANGED <<die_msg, die_depth, exit_code>>

Goto(p) ==
    /\ pc' = p
    /\ UNCHANGED <<die_msg, die_depth, panic_msg, exit_code>>

----------------------------------------------------------------------------
(* Operations *)

\* setup_terminal, enable_raw_mode
SetupTerminal ==
    /\ pc = "setup"
    /\ UNCHANGED <<overflow_checks, editor, sb, stdout_buf, screen, stdin,
                   last_read, last_key>>
    /\ \/ /\ effects' = <<"tcgetattr_err">>
          /\ UNCHANGED termios
          /\ Die("getting termios")
       \/ /\ effects' = <<"tcgetattr", "tcsetattr_raw_err">>
          /\ UNCHANGED termios
          /\ Die("setting termios raw mode")
       \/ /\ effects' = <<"tcgetattr", "tcsetattr_raw">>
          /\ termios' = "raw"
          /\ Goto("init_editor")

\* init_editor, get_window_size, get_cursor_position
InitEditor ==
    /\ pc = "init_editor"
    /\ UNCHANGED <<termios, overflow_checks, sb, stdout_buf, screen, stdin,
                   last_read, last_key>>
    /\ \/ \E cols \in 1..MaxDim, rows \in 1..MaxDim :
             /\ editor' = init_editor(cols, rows)
             /\ effects' = <<"termsize">>
             /\ Goto("open")
       \/ /\ effects' = <<"query_cursor", "read_err">>
          /\ UNCHANGED editor
          /\ Die("reading cursor position")
       \/ \E reply \in CursorReplies :
             LET p == get_cursor_position(reply) IN
             /\ effects' = <<"query_cursor", "read">>
             /\ IF p.die
                THEN UNCHANGED editor
                     /\ Die("unexpected output reading cursor position")
                ELSE IF p.ovf /\ overflow_checks
                THEN UNCHANGED editor
                     /\ Panic("arithmetic overflow in get_cursor_position")
                ELSE editor' = init_editor(p.col, p.row)
                     /\ Goto("open")

\* main's args.len() >= 2 test and editor_open
EditorOpen ==
    /\ pc = "open"
    /\ UNCHANGED <<termios, overflow_checks, sb, stdout_buf, screen, stdin,
                   last_read, last_key>>
    /\ \/ /\ effects' = <<>>
          /\ UNCHANGED editor
          /\ Goto("refresh")
       \/ /\ effects' = <<"read_file_err">>
          /\ UNCHANGED editor
          /\ Die("Error when trying to load file")
       \/ \E lines \in Files :
             LET o == editor_open(editor, lines) IN
             /\ effects' = <<"read_file">>
             /\ IF o.ovf /\ overflow_checks
                THEN UNCHANGED editor /\ Panic("arithmetic overflow in editor_open")
                ELSE editor' = o.editor /\ Goto("refresh")

\* editor_refresh_screen
EditorRefreshScreen ==
    /\ pc = "refresh"
    /\ UNCHANGED <<termios, overflow_checks, stdin, last_read, last_key>>
    /\ LET s == scroll_screen(editor)
           e == [editor EXCEPT !.row_offset = s.row_offset,
                               !.col_offset = s.col_offset]
       IN  IF s.ovf /\ overflow_checks
           THEN /\ effects' = <<"panic">>
                /\ UNCHANGED <<editor, sb, stdout_buf, screen>>
                /\ Panic("arithmetic overflow in scroll_screen")
           ELSE IF draw_rows_oob(e)
           THEN /\ effects' = <<"panic">>
                /\ editor' = e
                /\ UNCHANGED <<sb, stdout_buf, screen>>
                /\ Panic("index out of bounds")
           ELSE IF draw_rows_bad_slice(e)
           THEN /\ effects' = <<"panic">>
                /\ editor' = e
                /\ UNCHANGED <<sb, stdout_buf, screen>>
                /\ Panic("byte index is not a char boundary")
           ELSE IF frame_ovf(e) /\ overflow_checks
           THEN /\ effects' = <<"panic">>
                /\ editor' = e
                /\ UNCHANGED <<sb, stdout_buf, screen>>
                /\ Panic("arithmetic overflow in editor_refresh_screen")
           ELSE /\ editor' = e
                /\ sb' = Append(sb, frame(e))
                /\ \/ /\ effects' = <<"build_frame", "flush_stdout">>
                      /\ stdout_buf' = <<>>
                      /\ screen' = written(stdout_buf, screen)
                      /\ Goto("keypress")
                   \/ /\ effects' = <<"build_frame", "flush_stdout_err">>
                      /\ UNCHANGED <<stdout_buf, screen>>
                      /\ Die("flushing stdout after refresh")

\* the Ctrl-Q branch exiting without disable_raw_mode
quit_without_restore(buf, shown, mode, flush_ok, tcsetattr_ok) ==
    IF ~flush_ok
    THEN [die |-> "flushing stdout after clear and reset cursor", exit |-> FALSE,
          stdout_buf |-> Append(buf, "clear_home"), screen |-> shown,
          termios |-> mode, effects |-> <<"clear_home", "flush_stdout_err">>]
    ELSE [die |-> "", exit |-> TRUE,
          stdout_buf |-> <<>>, screen |-> "cleared",
          termios |-> mode,
          effects |-> <<"clear_home", "flush_stdout", "exit">>]

\* the Ctrl-Q branch of process_keypress: clear_and_reset_cursor(None),
\* disable_raw_mode(&editor.orig_termios), std::process::exit(0)
quit(buf, shown, mode, flush_ok, tcsetattr_ok) ==
    IF ~flush_ok
    THEN [die |-> "flushing stdout after clear and reset cursor", exit |-> FALSE,
          stdout_buf |-> Append(buf, "clear_home"), screen |-> shown,
          termios |-> mode, effects |-> <<"clear_home", "flush_stdout_err">>]
    ELSE IF ~tcsetattr_ok
    THEN [die |-> "setting termios disable raw mode", exit |-> FALSE,
          stdout_buf |-> <<>>, screen |-> "cleared",
          termios |-> mode,
          effects |-> <<"clear_home", "flush_stdout", "tcsetattr_orig_err">>]
    ELSE [die |-> "", exit |-> TRUE,
          stdout_buf |-> <<>>, screen |-> "cleared",
          termios |-> "orig",
          effects |-> <<"clear_home", "flush_stdout", "tcsetattr_orig", "exit">>]

\* process_keypress
ProcessKeypress ==
    /\ pc = "keypress"
    /\ UNCHANGED <<overflow_checks, sb>>
    /\ \/ /\ effects' = <<"read_err">>
          /\ UNCHANGED <<termios, editor, stdout_buf, screen, stdin, last_read, last_key>>
          /\ Die("reading input")
       \/ \E typed \in InputStreams :
             LET input == stdin \o typed
                 c == read_key(input).key
             IN
             /\ last_key' = c
             /\ last_read' = consumed(input)
             /\ stdin' = remaining(input)
             /\ IF is_cntrl(c) /\ c = CTRL_Q
                THEN \E flush_ok \in BOOLEAN, tcsetattr_ok \in BOOLEAN :
                        LET q == quit(stdout_buf, screen, termios, flush_ok, tcsetattr_ok) IN
                        /\ effects' = <<"read_key">> \o q.effects
                        /\ stdout_buf' = q.stdout_buf
                        /\ screen' = q.screen
                        /\ termios' = q.termios
                        /\ UNCHANGED editor
                        /\ IF q.exit
                           THEN /\ pc' = "exited"
                                /\ exit_code' = 0
                                /\ UNCHANGED <<die_msg, die_depth, panic_msg>>
                           ELSE Die(q.die)
                ELSE /\ UNCHANGED <<termios, stdout_buf, screen>>
                     /\ IF c = 0 \/ try_from(c) = "Err"
                        THEN /\ effects' = <<"read_key">>
                             /\ UNCHANGED editor
                             /\ Goto("sbflush")
                        ELSE LET m == move_cursor(editor, try_from(c)) IN
                             IF m.ovf /\ overflow_checks
                             THEN /\ effects' = <<"read_key", "panic">>
                                  /\ UNCHANGED editor
                                  /\ Panic("arithmetic overflow in move_cursor")
                             ELSE /\ effects' = <<"read_key", "move_cursor">>
                                  /\ editor' = [editor EXCEPT !.cursor_x = m.cursor_x,
                                                              !.cursor_y = m.cursor_y]
                                  /\ Goto("sbflush")

\* ScreenBuffer::flush at the end of the loop body
SbFlush ==
    /\ pc = "sbflush"
    /\ UNCHANGED <<termios, overflow_checks, editor, stdin>>
    /\ last_read' = <<>>
    /\ last_key' = 0
    /\ IF \E i \in 1..Len(sb) : \E y \in DOMAIN sb[i].rows : sb[i].rows[y].sep
       THEN \/ /\ effects' = <<"print_frame", "write_stdout">>
               /\ sb' = <<>>
               /\ stdout_buf' = <<"frame_tail">>
               /\ screen' = "partial_frame"
               /\ Goto("refresh")
            \/ /\ effects' = <<"print_frame", "write_stdout_err">>
               /\ UNCHANGED <<sb, stdout_buf, screen>>
               /\ Panic("failed printing to stdout")
       ELSE /\ effects' = <<"print_frame">>
            /\ sb' = <<>>
            /\ stdout_buf' = Append(stdout_buf, "frame")
            /\ UNCHANGED screen
            /\ Goto("refresh")

\* die: clear_and_reset_cursor(None), then panic!; a failing flush inside
\* clear_and_reset_cursor calls die again
DieStep ==
    /\ pc = "die"
    /\ UNCHANGED <<termios, overflow_checks, editor, sb, stdin, last_read, last_key,
                   exit_code>>
    /\ \/ /\ effects' = <<"clear_home", "flush_stdout", "panic">>
          /\ stdout_buf' = <<>>
          /\ screen' = "cleared"
          /\ pc' = "panicked"
          /\ panic_msg' = die_msg
          /\ UNCHANGED <<die_msg, die_depth>>
       \/ /\ die_depth < MaxDieDepth
          /\ effects' = <<"clear_home", "flush_stdout_err">>
          /\ stdout_buf' = Append(stdout_buf, "clear_home")
          /\ UNCHANGED <<screen, panic_msg>>
          /\ pc' = "die"
          /\ die_msg' = "flushing stdout after clear and reset cursor"
          /\ die_depth' = die_depth + 1

Next ==
    \/ SetupTerminal
    \/ InitEditor
    \/ EditorOpen
    \/ EditorRefreshScreen
    \/ ProcessKeypress
    \/ SbFlush
    \/ DieStep

Spec == Init /\ [][Next]_vars

----------------------------------------------------------------------------
(* The decoder on its own: read_key applied to typed-ahead input *)

InitKey ==
    /\ pc = "read_key"
    /\ termios = "raw"
    /\ overflow_checks = FALSE
    /\ editor = init_editor(1, 1)
    /\ sb = <<>>
    /\ stdout_buf = <<>>
    /\ screen = "shell"
    /\ stdin \in KeyStreams(MaxKeys)
    /\ last_read = <<>>
    /\ last_key = 0
    /\ effects = <<>>
    /\ die_msg = ""
    /\ die_depth = 0
    /\ panic_msg = ""
    /\ exit_code = -1

ReadKey ==
    /\ pc = "read_key"
    /\ last_key' = read_key(stdin).key
    /\ last_read' = consumed(stdin)
    /\ stdin' = remaining(stdin)
    /\ effects' = <<"read_key">>
    /\ UNCHANGED <<pc, termios, overflow_checks, editor, sb, stdout_buf, screen,
                   die_msg, die_depth, panic_msg, exit_code>>

NextKey == ReadKey

SpecKey == InitKey /\ [][NextKey]_vars

----------------------------------------------------------------------------
(* The scroll algorithm on its own: scroll_screen applied repeatedly to any *)
(* cursor, offsets and screen dimensions                                   *)

InitScroll ==
    /\ pc = "scroll"
    /\ termios = "raw"
    /\ overflow_checks \in BOOLEAN
    /\ editor \in { [init_editor(cols, rows) EXCEPT !.cursor_x = x, !.cursor_y = y,
                                                    !.row_offset = ro, !.col_offset = co] :
                       cols \in 0..MaxU16, rows \in 0..MaxU16, x \in 0..MaxU16,
                       y \in 0..MaxU16, ro \in 0..MaxU16, co \in 0..MaxU16 }
    /\ sb = <<>>
    /\ stdout_buf = <<>>
    /\ screen = "shell"
    /\ stdin = <<>>
    /\ last_read = <<>>
    /\ last_key = 0
    /\ effects = <<>>
    /\ die_msg = ""
    /\ die_depth = 0
    /\ panic_msg = ""
    /\ exit_code = -1

ScrollScreen ==
    /\ pc \in {"scroll", "scrolled"}
    /\ UNCHANGED <<termios, overflow_checks, sb, stdout_buf, screen, stdin,
                   last_read, last_key>>
    /\ LET s == scroll_screen(editor) IN
       IF s.ovf /\ overflow_checks
       THEN /\ effects' = <<"panic">>
            /\ UNCHANGED editor
            /\ Panic("arithmetic overflow in scroll_screen")
       ELSE /\ effects' = <<"scroll_screen">>
            /\ editor' = [editor EXCEPT !.row_offset = s.row_offset,
                                        !.col_offset = s.col_offset]
            /\ Goto("scrolled")

NextScroll == ScrollScreen

SpecScroll == InitScroll /\ [][NextScroll]_vars

----------------------------------------------------------------------------
(* get_cursor_position on its own: every reply of a few bytes is pending on *)
(* stdin when the fallback dimension query reads it                         *)

InitReply ==
    /\ pc = "reply"
    /\ termios = "raw"
    /\ overflow_checks \in BOOLEAN
    /\ editor = init_editor(0, 0)
    /\ sb = <<>>
    /\ stdout_buf = <<>>
    /\ screen = "shell"
    /\ stdin \in Replies
    /\ last_read = <<>>
    /\ last_key = 0
    /\ effects = <<>>
    /\ die_msg = ""
    /\ die_depth = 0
    /\ panic_msg = ""
    /\ exit_code = -1

\* the successful read of get_cursor_position and what init_editor does
\* with its result
GetCursorPosition ==
    /\ pc = "reply"
    /\ UNCHANGED <<termios, overflow_checks, sb, stdout_buf, screen, last_key>>
    /\ last_read' = stdin
    /\ stdin' = <<>>
    /\ effects' = <<"query_cursor", "read">>
    /\ LET p == get_cursor_position(stdin) IN
       IF p.die
       THEN UNCHANGED editor
            /\ Die("unexpected output reading cursor position")
       ELSE IF p.ovf /\ overflow_checks
       THEN UNCHANGED editor
            /\ Panic("arithmetic overflow in get_cursor_position")
       ELSE editor' = init_editor(p.col, p.row)
            /\ Goto("open")

NextReply == GetCursorPosition

SpecReply == InitReply /\ [][NextReply]_vars

----------------------------------------------------------------------------
(* Properties *)

Terminated == pc \in {"exited", "panicked"}

\* C1: on every path by which the process terminates after raw mode was
\* enabled (Ctrl-Q, or any fatal error reported through die), the original
\* terminal attributes have been restored before the process ends.
C1_RestoredOnEveryExit ==
    (pc = "exited" \/ (pc = "panicked" /\ die_msg # "")) => termios = "orig"

QuitEffects == <<"read_key", "clear_home", "flush_stdout", "tcsetattr_orig", "exit">>

\* C2: a decoded Ctrl-Q leaves the loop (it never falls through to the next
\* iteration), and a process that has quit has, in this order, cleared the
\* screen with the cursor at home, restored the original terminal mode and
\* exited with status 0: the terminal is in its original mode, the screen
\* cleared.
C2_QuitSequence ==
    /\ last_key = CTRL_Q => pc \in {"exited", "die", "panicked"}
    /\ pc = "exited" =>
          /\ last_key = CTRL_Q
          /\ effects = QuitEffects
          /\ exit_code = 0
          /\ termios = "orig"
          /\ screen = "cleared"
          /\ stdout_buf = <<>>

C2_Witness == pc = "exited" /\ last_read = <<CTRL_Q>> /\ screen = "cleared"

\* messages of the fatal errors that report a failed I/O operation
IoErrors ==
    { "flushing stdout after refresh", "reading input",
      "flushing stdout after clear and reset cursor",
      "setting termios disable raw mode", "failed printing to stdout" }

\* messages of the fatal errors raised before the main loop is entered
StartupErrors ==
    { "getting termios", "setting termios raw mode", "reading cursor position",
      "unexpected output reading cursor position",
      "arithmetic overflow in get_cursor_position",
      "Error when trying to load file", "arithmetic overflow in editor_open" }

\* C3: without an I/O error the main loop ends only on Quit: on a screen of
\* at least 1x1 the process never exits or aborts on any other input.
C3_OnlyQuitEndsLoop ==
    (Terminated /\ editor.screen_rows >= 1 /\ editor.screen_cols >= 1) =>
        \/ pc = "exited" /\ last_key = CTRL_Q
        \/ pc = "panicked" /\ panic_msg \in IoErrors \cup StartupErrors

C5_ScrollIdempotent ==
    [][pc = "scrolled" /\ pc' = "scrolled" =>
          /\ editor'.row_offset = editor.row_offset
          /\ editor'.col_offset = editor.col_offset]_vars

C5_Witness ==
    /\ pc = "scrolled"
    /\ editor.row_offset > 0
    /\ editor.col_offset > 0
    /\ scroll_screen(editor).row_offset = editor.row_offset
    /\ ~scroll_screen(editor).ovf

IsPrefix(p, s) == Len(p) <= Len(s) /\ SubSeq(s, 1, Len(p)) = p

\* the reference table of the keyboard protocol: sequence, key
ReferenceTable ==
    { <<<<ESC, LBRACKET, 65>>, Up>>, <<<<ESC, LBRACKET, 66>>, Down>>,
      <<<<ESC, LBRACKET, 67>>, Right>>, <<<<ESC, LBRACKET, 68>>, Left>>,
      <<<<ESC, LBRACKET, 72>>, Home>>, <<<<ESC, LBRACKET, 70>>, End>>,
      <<<<ESC, LETTER_O, 72>>, Home>>, <<<<ESC, LETTER_O, 70>>, End>>,
      <<<<ESC, LBRACKET, 49, TILDE>>, Home>>, <<<<ESC, LBRACKET, 55, TILDE>>, Home>>,
      <<<<ESC, LBRACKET, 51, TILDE>>, Delete>>,
      <<<<ESC, LBRACKET, 52, TILDE>>, End>>, <<<<ESC, LBRACKET, 56, TILDE>>, End>>,
      <<<<ESC, LBRACKET, 53, TILDE>>, PageUp>>,
      <<<<ESC, LBRACKET, 54, TILDE>>, PageDown>> }

\* C6: when the pending input starts with a complete escape sequence of the
\* keyboard protocol, one read_key call returns the key the reference table
\* gives for it and consumes exactly the bytes of that sequence.
C6_DecodesTable ==
    [][\A e \in ReferenceTable :
          (pc = "read_key" /\ IsPrefix(e[1], stdin)) =>
              /\ last_key' = e[2]
              /\ last_read' = e[1]
              /\ stdin' = SubSeq(stdin, Len(e[1]) + 1, Len(stdin))]_vars

C6_Witness ==
    /\ pc = "read_key"
    /\ last_read = <<ESC, LBRACKET, 53, TILDE>>
    /\ last_key = PageUp
    /\ stdin = <<ESC, LBRACKET, 65>>

HomeSequences ==
    { <<ESC, LBRACKET, 72>>, <<ESC, LETTER_O, 72>>, <<ESC, LBRACKET, 49, TILDE>>,
      <<ESC, LBRACKET, 55, TILDE>> }

EndSequences ==
    { <<ESC, LBRACKET, 70>>, <<ESC, LETTER_O, 70>>, <<ESC, LBRACKET, 52, TILDE>>,
      <<ESC, LBRACKET, 56, TILDE>> }

\* C7: after one process_keypress on the sequence of a snap command, PageUp
\* has set the cursor row to 0, PageDown to screen_rows - 1, Home has set the
\* cursor column to 0 and End to screen_cols - 1.
C7_SnapCommands ==
    (pc = "sbflush" /\ editor.screen_rows >= 1 /\ editor.screen_cols >= 1) =>
        /\ last_read = <<ESC, LBRACKET, 53, TILDE>> => editor.cursor_y = 0
        /\ last_read = <<ESC, LBRACKET, 54, TILDE>> =>
               editor.cursor_y = editor.screen_rows - 1
        /\ last_read \in HomeSequences => editor.cursor_x = 0
        /\ last_read \in EndSequences => editor.cursor_x = editor.screen_cols - 1

\* a step of process_keypress that applied the command cmd
Applies(cmd) == pc = "keypress" /\ pc' = "sbflush" /\ try_from(last_key') = cmd

\* C8 as claimed: with the cursor on the last buffer row
\* (cursor_y = num_rows - 1, num_rows >= 1) MoveDown leaves cursor_y unchanged.
C8_DownStopsAtLastRow ==
    [][(Applies("Down") /\ editor.num_rows >= 1
            /\ editor.cursor_y = editor.num_rows - 1) =>
          editor'.cursor_y = editor.cursor_y]_vars

\* C8 as amended: with the cursor on the last buffer row MoveDown advances it
\* to the row one past the last (cursor_y = num_rows); it is on that row
\* that MoveDown leaves cursor_y unchanged.
C8_DownStopsPastLastRow ==
    [][(Applies("Down") /\ editor.num_rows >= 1) =>
          /\ editor.cursor_y = editor.num_rows - 1 =>
                 editor'.cursor_y = editor.num_rows
          /\ editor.cursor_y = editor.num_rows =>
                 editor'.cursor_y = editor.cursor_y]_vars

C8_Witness ==
    /\ pc = "sbflush"
    /\ try_from(last_key) = "Down"
    /\ editor.num_rows >= 1
    /\ editor.cursor_y = editor.num_rows

\* C9: MoveUp with cursor_y = 0 and MoveLeft with cursor_x = 0 decrement
\* nothing: the coordinate stays 0 and the other coordinate and both
\* offsets are unchanged.
C9_NoUnderflow ==
    [][/\ (pc = "keypress" /\ try_from(last_key') = "Up" /\ editor.cursor_y = 0) =>
              (pc' = "sbflush" /\ editor'.cursor_y = 0 /\ editor' = editor)
       /\ (pc = "keypress" /\ try_from(last_key') = "Left" /\ editor.cursor_x = 0) =>
              (pc' = "sbflush" /\ editor'.cursor_x = 0 /\ editor' = editor)]_vars

\* the first keypress (nothing was printed yet, the cursor was at (0,0))
\* was a MoveLeft
C9_Witness ==
    /\ pc = "sbflush"
    /\ screen = "shell"
    /\ stdout_buf = <<>>
    /\ try_from(last_key) = "Left"
    /\ editor.cursor_x = 0
    /\ editor.cursor_y = 0

\* C10: in every state of the run the cursor row is within the buffer or
\* one past its last line: 0 <= cursor_y <= num_rows.
C10_CursorRowInBuffer ==
    /\ 0 <= editor.cursor_y
    /\ editor.cursor_y <= editor.num_rows

\* a PageDown keypress was processed on an empty buffer shown on a screen
\* of two rows or more
C10_Witness ==
    /\ pc = "sbflush"
    /\ last_key = PageDown
    /\ editor.num_rows = 0
    /\ editor.screen_rows >= 2
    /\ editor.cursor_y = 0

\* the decoder returned: process_keypress is past its read_key call
Decoded == pc = "keypress" /\ effects'[1] = "read_key"

\* C11: every decode input that is neither a listed escape sequence nor
\* Ctrl-Q (a single non-escape byte such as a printable letter, an
\* unrecognised escape sequence) leaves cursor_x, cursor_y, row_offset and
\* col_offset unchanged and does not end the loop.
C11_OtherInputsIgnored ==
    [][(Decoded /\ last_read' \notin KeySequences /\ last_read' # <<CTRL_Q>>) =>
           /\ pc' = "sbflush"
           /\ editor'.cursor_x = editor.cursor_x
           /\ editor'.cursor_y = editor.cursor_y
           /\ editor'.row_offset = editor.row_offset
           /\ editor'.col_offset = editor.col_offset]_vars

\* the frame most recently appended to the screen buffer
last_frame == sb[Len(sb)]

\* a frame was built and the decoder has not been called yet
FrameBuilt == pc = "keypress" /\ sb # <<>>

\* rows 0..n-1 of the frame are the first n buffer lines in file order,
\* every later row is the placeholder, every row is followed by ESC[K and
\* every row but the last by the separator
RowsThenTildes(n) ==
    LET rows == last_frame.rows IN
    /\ DOMAIN rows = 1..editor.screen_rows
    /\ \A y \in 1..editor.screen_rows :
          /\ rows[y].clear
          /\ rows[y].sep = (y # editor.screen_rows)
          /\ IF y <= n
             THEN /\ rows[y].kind = "text"
                  /\ rows[y].file_row = y - 1
                  /\ rows[y].len = byte_len(editor.rows[y].chars)
             ELSE /\ rows[y].kind = "tilde"
                  /\ rows[y].len = 1
    /\ Cardinality({y \in 1..editor.screen_rows : rows[y].sep})
           = editor.screen_rows - 1

\* a buffer shown from its first line and first column on a screen taller
\* than the buffer
TallerThanBuffer ==
    /\ FrameBuilt
    /\ editor.row_offset = 0
    /\ editor.col_offset = 0
    /\ editor.screen_rows > editor.num_rows

C13_TextTruncatedToWidth ==
    (FrameBuilt /\ editor.screen_rows >= 1 /\ editor.screen_cols >= 1) =>
        \A y \in DOMAIN last_frame.rows :
            LET r == last_frame.rows[y] IN
            (r.kind = "text" /\ ~r.oob) =>
                r.len = Min(saturating_sub(byte_len(editor.rows[r.file_row + 1].chars),
                                           editor.col_offset),
                            editor.screen_cols)

\* C14: with an empty buffer (num_rows = 0), for every screen_rows >= 1,
\* the frame carries the version banner on exactly one row, the row with
\* index screen_rows / 3 (integer division), and every other row is exactly
\* '~'; this holds after any sequence of commands, because row_offset stays
\* 0 on an empty buffer.
C14_BannerOnOneRow ==
    (FrameBuilt /\ editor.num_rows = 0 /\ editor.screen_rows >= 1) =>
        LET rows == last_frame.rows IN
        /\ editor.row_offset = 0
        /\ Cardinality({y \in DOMAIN rows : rows[y].kind = "welcome"}) = 1
        /\ \A y \in DOMAIN rows :
              IF y - 1 = editor.screen_rows \div 3
              THEN rows[y].kind = "welcome"
              ELSE rows[y].kind = "tilde" /\ rows[y].len = 1

\* an empty buffer was drawn on a two-row screen after a command had moved
\* the cursor
C14_Witness ==
    /\ FrameBuilt
    /\ editor.num_rows = 0
    /\ editor.screen_rows = 2
    /\ editor.cursor_x >= 1
    /\ last_frame.rows[1].kind = "welcome"
    /\ last_frame.rows[2].kind = "tilde"

\* C15: in every loop iteration the frame built by the refresh is written
\* out (the accumulator is flushed) before the decoder starts its blocking
\* read: when process_keypress is about to read, no built frame is still
\* held in the screen buffer and the terminal shows it.
C15_FrameFlushedBeforeRead ==
    pc = "keypress" => (sb = <<>> /\ screen \in {"frame", "partial_frame"})

\* the byte is an ASCII digit
is_digit(b) == DIGIT_0 <= b /\ b <= DIGIT_9

\* ESC [ digits ; digits R with at least one digit in each number
WellFormedReply(s) ==
    \E i \in 4..(Len(s) - 2) :
        /\ s[1] = ESC
        /\ s[2] = LBRACKET
        /\ s[i] = SEMICOLON
        /\ s[Len(s)] = LETTER_R
        /\ \A k \in (3..(i - 1)) \cup ((i + 1)..(Len(s) - 1)) : is_digit(s[k])

\* C16: every cursor-position reply that deviates from ESC [ digits ;
\* digits R (no ESC[ prefix, a non-digit inside a number, no ';', no 'R')
\* ends in die and never yields a (rows, cols) pair that is used as the
\* screen dimensions.
C16_MalformedReplyDies ==
    (pc # "reply" /\ ~WellFormedReply(last_read)) => pc = "die"

\* C17: after ESC the decoder reads a third byte only when the second byte
\* is '[' or 'O'; when the second byte is anything else, the byte that
\* follows it is not consumed and is left for the next decode call (for ESC,
\* x, Ctrl-Q a later decode still yields Quit).
C17_ThirdByteOnlyAfterIntroducer ==
    [][(/\ pc = "read_key"
        /\ Len(stdin) >= 3
        /\ stdin[1] = ESC
        /\ stdin[2] \notin {LBRACKET, LETTER_O}) =>
            /\ Len(last_read') = 2
            /\ stdin' = SubSeq(stdin, 3, Len(stdin))]_vars

\* C18: once die is entered it makes one attempt to clear the screen and
\* reset the cursor and then reaches process termination with its
\* diagnostic, also when the flush of that attempt fails: die and
\* clear_and_reset_cursor do not enter each other again.
C18_DieTerminatesAfterOneAttempt ==
    [][pc = "die" => (pc' = "panicked" /\ panic_msg' = die_msg)]_vars

\* C19: in every reachable state num_rows equals the number of stored rows,
\* and editor_draw_rows indexes rows[y + row_offset] only when
\* y + row_offset < num_rows, so it never reads a row that does not exist.
C19_RowsExist ==
    /\ editor.num_rows = Len(editor.rows)
    /\ panic_msg # "index out of bounds"
    /\ FrameBuilt => \A y \in DOMAIN last_frame.rows :
                         /\ ~last_frame.rows[y].oob
                         /\ last_frame.rows[y].kind = "text" =>
                                last_frame.rows[y].file_row < editor.num_rows

\* C20: no arithmetic on the u16 cursor and offset fields leaves the u16
\* range in any reachable state: cursor_x + 1 of a MoveRight, col_offset +
\* screen_cols and row_offset + screen_rows in scroll_screen, and cursor -
\* offset + 1 in editor_refresh_screen neither overflow nor underflow, for
\* any number of consecutive MoveRight commands.
C20_NoOverflow ==
    (/\ editor.screen_rows >= 1
     /\ editor.screen_cols >= 1
     /\ editor.num_rows = Len(editor.rows)) =>
        /\ pc = "keypress" => ~move_right(editor).ovf
        /\ pc = "refresh" =>
               LET s == scroll_screen(editor)
                   e == [editor EXCEPT !.row_offset = s.row_offset,
                                       !.col_offset = s.col_offset]
               IN  ~s.ovf /\ ~frame_ovf(e)
        /\ panic_msg \notin {"arithmetic overflow in move_cursor",
                             "arithmetic overflow in scroll_screen",
                             "arithmetic overflow in editor_refresh_screen"}

====
